---- MODULE Spec2Model ----
(***************************************************************************)
(* PopConn: permutation testing of a matrix-valued statistic between two   *)
(* groups (popconn.stats.comparator.GroupComparator and its wrapper        *)
(* popconn.stats.group_comparison.compare_groups).                         *)
(*                                                                         *)
(* A DataFrame of the long format is a sequence of rows                    *)
(*   [subject_id, region, value, group];                                   *)
(* a statistic is a DataFrame [index, columns, values] whose values are an *)
(* ndarray [shape, at]; Python's None is the record None.                  *)
(***************************************************************************)
EXTENDS Integers, Sequences, FiniteSets, TLC

VARIABLES
    pc,                  \* "new", "rejected", "ready", "permuting", "done", "failed"
    dataset,             \* the frame the caller handed to the constructor
    data,                \* GroupComparator.data
    group_labels,        \* GroupComparator.group_labels
    group1_data,         \* GroupComparator.group1_data
    group2_data,         \* GroupComparator.group2_data
    method,              \* compare_groups' method argument (None for a direct run)
    stat_func,           \* run_permutation_test arguments ...
    n_permutations,
    return_distribution,
    random_state,
    rng,                 \* run_permutation_test locals ...
    observed,
    null_diffs,
    label_history,
    shuffled_data,
    stat_calls,          \* the argument pairs stat_func has been called with in this run
    result,              \* the dict the run returned, or None
    error,               \* the exception that ended the constructor or the run, or None
    earlier,             \* a completed run kept for comparison: [args, result], or None
    np_random,           \* the process-wide generator behind np.random.*
    permuted_series,     \* the Series the last permute_labels call returned, or None
    conn,                \* the CovConn object [data, long_format, _wide_data, _covariance], or None
    last_call,           \* the last CovConn call: [op, method, returned, raised], or None
    last_computed,       \* what the last compute_covariance call that returned, returned
    successes            \* the compute_covariance calls that returned, up to "two or more"

test_vars == <<pc, dataset, data, group_labels, group1_data, group2_data, method,
               stat_func, n_permutations, return_distribution, random_state, rng,
               observed, null_diffs, label_history, shuffled_data, stat_calls, result,
               error, earlier>>

permute_vars == <<np_random, permuted_series>>
conn_vars == <<conn, last_call, last_computed, successes>>

vars == <<test_vars, permute_vars, conn_vars>>

comparator_vars == <<data, group_labels, group1_data, group2_data>>
argument_vars == <<method, stat_func, n_permutations, return_distribution, random_state>>

-----------------------------------------------------------------------------
(* Bounds of the model *)

NumSubjects == 3
NumRegions == 2
MaxPermutations == 2
MaxSeed == 1

-----------------------------------------------------------------------------
(* Values *)

None == [kind |-> "None"]
IntSeed(k) == [kind |-> "int", value |-> k]

Subjects == 1..NumSubjects
Labels == {"young", "old", "mid"}

RegionNames == <<"A", "B", "C", "D">>

Range(s) == {s[i] : i \in DOMAIN s}

RECURSIVE SumSeq(_)
SumSeq(s) == IF s = <<>> THEN 0 ELSE Head(s) + SumSeq(Tail(s))

RECURSIVE Flatten(_)
Flatten(ss) == IF ss = <<>> THEN <<>> ELSE Head(ss) \o Flatten(Tail(ss))

Abs(x) == IF x < 0 THEN -x ELSE x

Max(a, b) == IF a >= b THEN a ELSE b

\* The measurement of a subject in a region (fixed, as in the tests' fixture).
Measurement(s, r) == ((s * s + r) % 4) - 1

\* The long-format frame of the subjects labelled by lab, one row per subject
\* and region; the group of the last row is lastGroup.
LongFrame(lab, lastGroup) ==
    [k \in 1..(NumSubjects * NumRegions) |->
        LET s == ((k - 1) \div NumRegions) + 1
            r == ((k - 1) % NumRegions) + 1
        IN  [subject_id |-> s, region |-> RegionNames[r], value |-> Measurement(s, r),
             group |-> IF k = NumSubjects * NumRegions THEN lastGroup ELSE lab[s]]]

\* The labelings of the subjects; the first subject is "young" (the names of
\* the labels do not matter to the code, their order of appearance does).
Labelings(labels) == {lab \in [Subjects -> labels] : lab[1] = "young"}

Datasets == {LongFrame(lab, g) : lab \in Labelings(Labels), g \in Labels}

\* The statistic functions a caller may pass: each returns a frame whose shape
\* kind ("matrix": region x region, "vector": region x 1, "scalar": 1 x 1) is
\* home when the first subject's rows are in its first argument, away otherwise.
\* The first three are shape-stable, the last two are not.
StatFns ==
    {[home |-> "matrix", away |-> "matrix"],
     [home |-> "vector", away |-> "vector"],
     [home |-> "scalar", away |-> "scalar"],
     [home |-> "matrix", away |-> "scalar"],
     [home |-> "scalar", away |-> "matrix"]}

-----------------------------------------------------------------------------
(* pandas and numpy, as far as the comparator uses them *)

\* Series.unique(): the distinct values in order of first appearance.
RECURSIVE unique(_)
unique(s) ==
    IF s = <<>> THEN <<>>
    ELSE LET front == unique(SubSeq(s, 1, Len(s) - 1))
             last == s[Len(s)]
         IN  IF last \in Range(front) THEN front ELSE Append(front, last)

Column(frame, col) == [i \in DOMAIN frame |-> frame[i][col]]

\* frame[frame[group_col] == g]
RowsOfGroup(frame, g) == SelectSeq(frame, LAMBDA row : row.group = g)

\* frame[[subject_col, group_col]]
SubjectGroupColumns(frame) ==
    [i \in DOMAIN frame |-> [subject_id |-> frame[i].subject_id, group |-> frame[i].group]]

\* No row is dropped.
keep_duplicates(frame) == frame

\* DataFrame.drop_duplicates(): the first occurrence of every row is kept.
drop_duplicates(frame) == unique(frame)

\* np.random.default_rng(seed): a fresh generator, seeded by the seed, or by
\* entropy drawn from the operating system when the seed is None.
Entropy == 0..3

\* The generator of the run before is used again when there is one.
shared_rng(seed, entropy) ==
    IF rng # None THEN rng
    ELSE LET e == IF seed = None THEN entropy ELSE seed.value
         IN  [seed_seq |-> e, state |-> e % 8]

default_rng(seed, entropy) ==
    LET e == IF seed = None THEN entropy ELSE seed.value
    IN  [seed_seq |-> e, state |-> e % 8]

\* The generator's state after one draw.
Advance(g) == [g EXCEPT !.state = (5 * @ + 3) % 8]

\* The k-th arrangement of arr (Lehmer decoding): a shuffle without replacement.
RECURSIVE Arrangement(_, _)
Arrangement(arr, k) ==
    IF arr = <<>> THEN <<>>
    ELSE LET i == (k % Len(arr)) + 1
             rest == SubSeq(arr, 1, i - 1) \o SubSeq(arr, i + 1, Len(arr))
         IN  <<arr[i]>> \o Arrangement(rest, k \div Len(arr))

\* A draw with replacement: every position takes some element of arr again.
Resample(arr, k) == [i \in DOMAIN arr |-> arr[((k + i * (k + 1)) % Len(arr)) + 1]]

rng_choice(arr, g) == Resample(arr, g.state)

\* Generator.permutation(arr), drawn from the generator's current state.
rng_permutation(arr, g) == Arrangement(arr, g.state)

Shape(frame) == <<Len(frame.index), Len(frame.columns)>>

Positions(shape) == (1..shape[1]) \X (1..shape[2])

\* np.stack(arrays) raises on an empty list and on arrays of different shapes.
StackError(arrays) ==
    IF arrays = <<>> THEN [kind |-> "ValueError", message |-> "need at least one array to stack"]
    ELSE IF \E i \in DOMAIN arrays : arrays[i].shape # arrays[1].shape
    THEN [kind |-> "ValueError", message |-> "all input arrays must have the same shape"]
    ELSE None

np_stack(arrays) == [shape |-> <<Len(arrays)>> \o arrays[1].shape, items |-> arrays]

\* numpy broadcasting of two 2-d shapes.
Broadcastable(s1, s2) == \A d \in 1..2 : s1[d] = s2[d] \/ s1[d] = 1 \/ s2[d] = 1

BroadcastShape(s1, s2) == <<Max(s1[1], s2[1]), Max(s1[2], s2[2])>>

\* The index of an array of the given shape that a broadcast position reads.
BroadcastIndex(shape, pos) ==
    <<IF shape[1] = 1 THEN 1 ELSE pos[1], IF shape[2] = 1 THEN 1 ELSE pos[2]>>

AnyFrameFits(values, index, columns) == TRUE

\* pd.DataFrame(values, index=, columns=) raises unless the values fit the labels.
FrameFits(values, index, columns) == values.shape = <<Len(index), Len(columns)>>

-----------------------------------------------------------------------------
(* The statistic functions *)

ColumnSum(frame, region) ==
    SumSeq([i \in DOMAIN frame |->
               IF frame[i].region = region THEN frame[i].value ELSE 0])

\* The entry (i, j) every statistic function computes from its two arguments.
Entry(g1, g2, i, j) ==
    ColumnSum(g1, RegionNames[i]) * ColumnSum(g1, RegionNames[j])
        - ColumnSum(g2, RegionNames[i]) * ColumnSum(g2, RegionNames[j])

RegionLabels == SubSeq(RegionNames, 1, NumRegions)

KindIndex(kind) == IF kind = "scalar" THEN <<"frobenius">> ELSE RegionLabels

KindColumns(kind) ==
    IF kind = "scalar" THEN <<"norm">>
    ELSE IF kind = "vector" THEN <<"strength_diff">> ELSE RegionLabels

\* fn(g1, g2): a labelled frame of the kind fn returns for these arguments.
ApplyStat(fn, g1, g2) ==
    LET kind == IF \E i \in DOMAIN g1 : g1[i].subject_id = 1 THEN fn.home ELSE fn.away
        shape == <<Len(KindIndex(kind)), Len(KindColumns(kind))>>
    IN  [index |-> KindIndex(kind), columns |-> KindColumns(kind),
         values |-> [shape |-> shape,
                     at |-> [pos \in Positions(shape) |-> Entry(g1, g2, pos[1], pos[2])]]]

-----------------------------------------------------------------------------
(* popconn.stats.comparator.GroupComparator *)

TwoGroupError == [kind |-> "ValueError", message |-> "Only two-group comparisons are supported."]

BroadcastError == [kind |-> "ValueError", message |-> "operands could not be broadcast together"]

FrameShapeError == [kind |-> "ValueError", message |-> "Shape of passed values does not match the indices"]

TooFewGroups(groups) == Len(groups) < 2

\* The check of __init__: len(groups) != 2.
WrongGroupCount(groups) == Len(groups) # 2

\* __init__(data, group_col, ...)
Construct(d) ==
    /\ pc = "new"
    /\ dataset' = d
    /\ LET groups == unique(Column(d, "group"))
       IN  IF WrongGroupCount(groups)
           THEN /\ pc' = "rejected"
                /\ error' = TwoGroupError
                /\ UNCHANGED comparator_vars
           ELSE /\ pc' = "ready"
                /\ group_labels' = groups
                /\ data' = d
                /\ group1_data' = RowsOfGroup(d, groups[1])
                /\ group2_data' = RowsOfGroup(d, groups[2])
                /\ UNCHANGED error
    /\ UNCHANGED <<argument_vars, rng, observed, null_diffs, label_history,
                   shuffled_data, stat_calls, result, earlier, permute_vars, conn_vars>>

\* self.data[[subject_col, group_col]].drop_duplicates()
SubjectLabels == drop_duplicates(SubjectGroupColumns(data))

\* _permutation_subject_labels(rng): the labels are permuted, the subjects stay.
_permutation_subject_labels(g) ==
    LET subject_labels == SubjectLabels
        shuffled == rng_permutation(Column(subject_labels, "group"), g)
    IN  [i \in DOMAIN subject_labels |->
            [subject_id |-> subject_labels[i].subject_id, group |-> shuffled[i]]]

\* _get_shuffled_data(permuted): data.drop(columns=[group_col]).merge(permuted,
\* on=subject_col), an inner join in the order of the left rows.
_get_shuffled_data(permuted) ==
    Flatten([i \in DOMAIN data |->
        LET matches == SelectSeq(permuted, LAMBDA p : p.subject_id = data[i].subject_id)
        IN  [j \in DOMAIN matches |->
                [subject_id |-> data[i].subject_id, region |-> data[i].region,
                 value |-> data[i].value, group |-> matches[j].group]]])

\* The two frames _compute_permutation_diff passes to stat_func.
PermutationGroups(shuffled) ==
    <<RowsOfGroup(shuffled, group_labels[1]), RowsOfGroup(shuffled, group_labels[2])>>

\* _compute_permutation_diff(stat_func, shuffled_data)
_compute_permutation_diff(fn, shuffled) ==
    LET g == PermutationGroups(shuffled) IN ApplyStat(fn, g[1], g[2]).values

\* np.abs(null) >= np.abs(observed) for one entry.
AsExtreme(null, obs) == Abs(null) >= Abs(obs)

\* np.mean over the permutation axis of a boolean column: hits out of n.
Mean(hits, n) == [num |-> hits, den |-> n]

\* _compute_p_values(observed, null_diffs), null_diffs the stacked array.
_compute_p_values(obs, nulls) ==
    LET n == nulls.shape[1]
        ns == <<nulls.shape[2], nulls.shape[3]>>
        shape == BroadcastShape(ns, obs.values.shape)
    IN  [shape |-> shape,
         at |-> [pos \in Positions(shape) |->
                    Mean(Cardinality({i \in 1..n :
                            AsExtreme(nulls.items[i].at[BroadcastIndex(ns, pos)],
                                      obs.values.at[BroadcastIndex(obs.values.shape, pos)])}),
                         n)]]

\* run_permutation_test up to its loop: the generator is made and the observed
\* statistic is computed from the two groups g1 and g2 of the comparator.
BeginRun(g1, g2, fn, n, dist, seed, entropy) ==
    /\ stat_func' = fn
    /\ n_permutations' = n
    /\ return_distribution' = dist
    /\ random_state' = seed
    /\ rng' = default_rng(seed, entropy)
    /\ observed' = ApplyStat(fn, g1, g2)
    /\ stat_calls' = << <<g1, g2>> >>
    /\ null_diffs' = <<>>
    /\ label_history' = <<>>
    /\ shuffled_data' = <<>>
    /\ result' = None
    /\ error' = None
    /\ pc' = "permuting"

\* run_permutation_test(stat_func, n_permutations, return_distribution, random_state)
StartRun(fn, n, dist, seed, entropy) ==
    /\ pc \in {"ready", "done", "failed"}
    /\ BeginRun(group1_data, group2_data, fn, n, dist, seed, entropy)
    /\ method' = None
    /\ earlier' = IF earlier = None THEN None
                  ELSE [earlier EXCEPT !.later_runs = IF @ < 2 THEN @ + 1 ELSE @]
    /\ UNCHANGED <<dataset, comparator_vars, permute_vars, conn_vars>>

\* correlation_matrix_difference, the statistic compare_groups passes.
correlation_matrix_difference == [home |-> "matrix", away |-> "matrix"]

\* compare_groups(data, group_col, method=, n_permutations=, return_distribution=):
\* a comparator is built and run with no random_state; method is not passed on.
CompareGroups(d, m, n, dist, entropy) ==
    /\ pc = "new"
    /\ dataset' = d
    /\ method' = m
    /\ LET groups == unique(Column(d, "group"))
       IN  IF WrongGroupCount(groups)
           THEN /\ pc' = "rejected"
                /\ error' = TwoGroupError
                /\ UNCHANGED <<comparator_vars, stat_func, n_permutations,
                               return_distribution, random_state, rng, observed,
                               null_diffs, label_history, shuffled_data, stat_calls,
                               result>>
           ELSE /\ group_labels' = groups
                /\ data' = d
                /\ group1_data' = RowsOfGroup(d, groups[1])
                /\ group2_data' = RowsOfGroup(d, groups[2])
                /\ BeginRun(RowsOfGroup(d, groups[1]), RowsOfGroup(d, groups[2]),
                            correlation_matrix_difference, n, dist, None, entropy)
    /\ UNCHANGED <<earlier, permute_vars, conn_vars>>

Prepended(list, item) == <<item>> \o list

\* list.append(item)
Appended(list, item) == Append(list, item)

\* One pass of the loop of run_permutation_test.
PermutationStep ==
    /\ pc = "permuting"
    /\ Len(label_history) < n_permutations
    /\ LET permuted == _permutation_subject_labels(rng)
           shuffled == _get_shuffled_data(permuted)
       IN  /\ rng' = Advance(rng)
           /\ shuffled_data' = shuffled
           /\ null_diffs' = Appended(null_diffs, _compute_permutation_diff(stat_func, shuffled))
           /\ stat_calls' = Append(stat_calls, PermutationGroups(shuffled))
           /\ label_history' = Appended(label_history, permuted)
    /\ UNCHANGED <<pc, dataset, comparator_vars, argument_vars, observed, result,
                   error, earlier, permute_vars, conn_vars>>

\* The dict run_permutation_test returns.
ResultDict(p_values, stacked) ==
    [observed |-> observed,
     p_values |-> [index |-> observed.index, columns |-> observed.columns,
                   values |-> p_values],
     null_distributions |-> IF return_distribution THEN stacked ELSE None,
     permutation_labels |-> label_history]

\* The error steps 4 and 5 of run_permutation_test end with, or None.
AggregateError ==
    IF StackError(null_diffs) # None THEN StackError(null_diffs)
    ELSE IF ~Broadcastable(null_diffs[1].shape, observed.values.shape) THEN BroadcastError
    ELSE IF ~FrameFits(_compute_p_values(observed, np_stack(null_diffs)),
                       observed.index, observed.columns)
    THEN FrameShapeError
    ELSE None

\* Steps 4 and 5 of run_permutation_test, after the loop.
Aggregate ==
    /\ pc = "permuting"
    /\ Len(label_history) >= n_permutations
    /\ LET raised == AggregateError
       IN  IF raised # None
           THEN /\ pc' = "failed"
                /\ error' = raised
                /\ UNCHANGED result
           ELSE /\ pc' = "done"
                /\ LET stacked == np_stack(null_diffs)
                   IN  result' = ResultDict(_compute_p_values(observed, stacked), stacked)
                /\ UNCHANGED error
    /\ UNCHANGED <<dataset, comparator_vars, argument_vars, rng, observed, null_diffs,
                   label_history, shuffled_data, stat_calls, earlier, permute_vars,
                   conn_vars>>

\* The caller keeps the dict a seeded run returned, to compare later runs with;
\* later_runs counts the runs started since, up to "two or more".
KeepResult ==
    /\ pc = "done"
    /\ earlier = None
    /\ random_state # None
    /\ earlier' = [stat_func |-> stat_func, n_permutations |-> n_permutations,
                   return_distribution |-> return_distribution,
                   random_state |-> random_state, result |-> result, later_runs |-> 0]
    /\ UNCHANGED <<pc, dataset, comparator_vars, argument_vars, rng, observed,
                   null_diffs, label_history, shuffled_data, stat_calls, result, error,
                   permute_vars, conn_vars>>

-----------------------------------------------------------------------------
(* popconn.core: the covariance provider *)

\* CovConn._to_wide_format(data): data.pivot(index=subject, columns=region,
\* values=value), one row per subject and one column per region.
_to_wide_format(frame) ==
    LET subjects == SelectSeq([s \in 1..NumSubjects |-> s],
                              LAMBDA s : \E i \in DOMAIN frame : frame[i].subject_id = s)
        regions == SelectSeq(RegionNames,
                             LAMBDA r : \E i \in DOMAIN frame : frame[i].region = r)
    IN  [index |-> subjects, columns |-> regions,
         at |-> [c \in Range(subjects) \X Range(regions) |->
                   LET i == CHOOSE i \in DOMAIN frame :
                                frame[i].subject_id = c[1] /\ frame[i].region = c[2]
                   IN  frame[i].value]]

\* compute_population_covariance(df, method): df.corr(method=method), a region x
\* region frame. An entry is kept as the co-moment n * sum(xy) - sum(x) * sum(y) of
\* the two columns (of their ranks for the rank methods), which the library
\* divides by the columns' deviations.
compute_population_covariance(df, corr_method) ==
    LET n == Len(df.index)
        score(s, r) ==
            IF corr_method = "pearson" THEN df.at[<<s, r>>]
            ELSE Cardinality({t \in Range(df.index) : df.at[<<t, r>>] < df.at[<<s, r>>]})
        total(r) == SumSeq([k \in 1..n |-> score(df.index[k], r)])
        cross(a, b) == SumSeq([k \in 1..n |-> score(df.index[k], a) * score(df.index[k], b)])
        shape == <<Len(df.columns), Len(df.columns)>>
    IN  [index |-> df.columns, columns |-> df.columns,
         values |-> [shape |-> shape,
                     at |-> [pos \in Positions(shape) |->
                               n * cross(df.columns[pos[1]], df.columns[pos[2]])
                                 - total(df.columns[pos[1]]) * total(df.columns[pos[2]])]]]

\* DataFrame.corr(method=) raises on a method it does not know.
CorrError(corr_method) ==
    IF corr_method \in {"pearson", "spearman", "kendall"} THEN None
    ELSE [kind |-> "ValueError", message |-> "method must be either pearson, spearman, kendall, or a callable"]

NotComputedError ==
    [kind |-> "ValueError", message |-> "Covariance matrix has not been computed yet."]

\* The value of a subject in a region in the CovConn tests' fixture: the values
\* of a region differ between subjects and are not ordered alike in all regions.
ConnValue(s, r) == ((r + 1) * (s - 1)) % 5

\* The fixture's long-format frame with the subjects labelled by lab.
ConnLongFrame(lab) ==
    [k \in 1..(NumSubjects * NumRegions) |->
        LET s == ((k - 1) \div NumRegions) + 1
            r == ((k - 1) % NumRegions) + 1
        IN  [subject_id |-> s, region |-> RegionNames[r], value |-> ConnValue(s, r),
             group |-> lab[s]]]

\* The frames a caller builds a CovConn from: the groups of the fixture.
ConnInputs ==
    {RowsOfGroup(ConnLongFrame(lab), g) :
        lab \in Labelings({"young", "old"}), g \in {"young", "old"}}

CorrMethods == {"pearson", "spearman", "kendall", "cosine"}

\* The same frames in the wide format.
WideConnInputs == {_to_wide_format(d) : d \in ConnInputs}

\* CovConn(data, long_format=long_format)
NewCovConn(d, long_format) ==
    /\ conn = None
    /\ conn' = [data |-> d, long_format |-> long_format,
                _wide_data |-> IF long_format THEN _to_wide_format(d) ELSE d,
                _covariance |-> None]
    /\ last_call' = [op |-> "__init__", method |-> None, returned |-> None,
                     raised |-> None]
    /\ UNCHANGED <<last_computed, successes, test_vars, permute_vars>>

KeptWhenSet(old, new) == IF old = None THEN new ELSE old

\* self._covariance = ...: the value now stored, given the one stored before.
Assigned(old, new) == new

\* CovConn.compute_covariance(method)
ComputeCovariance(corr_method) ==
    /\ conn # None
    /\ IF CorrError(corr_method) # None
       THEN /\ last_call' = [op |-> "compute_covariance", method |-> corr_method,
                             returned |-> None, raised |-> CorrError(corr_method)]
            /\ UNCHANGED <<conn, last_computed, successes>>
       ELSE LET matrix == compute_population_covariance(conn._wide_data, corr_method)
                stored == Assigned(conn._covariance, matrix)
            IN  /\ conn' = [conn EXCEPT !._covariance = stored]
                /\ last_call' = [op |-> "compute_covariance", method |-> corr_method,
                                 returned |-> stored, raised |-> None]
                /\ last_computed' = matrix
                /\ successes' = IF successes < 2 THEN successes + 1 ELSE successes
    /\ UNCHANGED <<test_vars, permute_vars>>

\* The property CovConn.covariance
ReadCovariance ==
    /\ conn # None
    /\ last_call' = IF conn._covariance = None
                    THEN [op |-> "covariance", method |-> None, returned |-> None,
                          raised |-> NotComputedError]
                    ELSE [op |-> "covariance", method |-> None,
                          returned |-> conn._covariance, raised |-> None]
    /\ UNCHANGED <<conn, last_computed, successes, test_vars, permute_vars>>

-----------------------------------------------------------------------------
(* popconn.permute.permutation *)

\* The process-wide generator of numpy, seeded from entropy when numpy is loaded.
global_random_state(entropy) == [seed_seq |-> entropy, state |-> entropy % 8]

\* permute_labels(df, group_col): np.random.permutation draws from the
\* process-wide generator.
PermuteLabels(df) ==
    /\ permuted_series' = [index |-> [i \in DOMAIN df |-> i],
                           values |-> rng_permutation(Column(df, "group"), np_random)]
    /\ np_random' = Advance(np_random)
    /\ UNCHANGED <<test_vars, conn_vars>>

-----------------------------------------------------------------------------
(* Specifications *)

Seeds == {None} \cup {IntSeed(k) : k \in 0..MaxSeed}
PermutationCounts == (-1)..MaxPermutations
Methods == {"pearson", "spearman"}

\* The state before any call, the process-wide generator seeded from entropy.
Start(entropy) ==
    /\ pc = "new"
    /\ dataset = <<>>
    /\ data = <<>>
    /\ group_labels = <<>>
    /\ group1_data = <<>>
    /\ group2_data = <<>>
    /\ method = None
    /\ stat_func = None
    /\ n_permutations = 0
    /\ return_distribution = FALSE
    /\ random_state = None
    /\ rng = None
    /\ observed = None
    /\ null_diffs = <<>>
    /\ label_history = <<>>
    /\ shuffled_data = <<>>
    /\ stat_calls = <<>>
    /\ result = None
    /\ error = None
    /\ earlier = None
    /\ np_random = global_random_state(entropy)
    /\ permuted_series = None
    /\ conn = None
    /\ last_call = None
    /\ last_computed = None
    /\ successes = 0

Init == Start(0)

\* The generators default_rng(seed) can return.
Generators(seed) == {default_rng(seed, entropy) : entropy \in Entropy}

\* Spec follows one comparator through its construction and its first run (a
\* later run starts by overwriting every local of the run, see BeginRun);
\* SpecRepeat follows any number of runs of one comparator.
Next ==
    \/ pc = "new" /\ \E d \in Datasets : Construct(d)
    \/ pc = "ready" /\
          \E fn \in StatFns, n \in PermutationCounts, dist \in BOOLEAN, seed \in Seeds :
            \E g \in Generators(seed) : StartRun(fn, n, dist, seed, g.seed_seq)
    \/ pc = "new" /\
          \E d \in Datasets, m \in Methods, n \in PermutationCounts, dist \in BOOLEAN,
             entropy \in Entropy :
               CompareGroups(d, m, n, dist, entropy)
    \/ PermutationStep
    \/ Aggregate

Spec == Init /\ [][Next]_vars

TwoLabelDatasets ==
    {LongFrame(lab, lab[NumSubjects]) : lab \in Labelings({"young", "old"})}

RepeatStatFns == {[home |-> "matrix", away |-> "matrix"], [home |-> "scalar", away |-> "scalar"]}

NextRepeat ==
    \/ pc = "new" /\ \E d \in TwoLabelDatasets : Construct(d)
    \/ pc \in {"ready", "done", "failed"} /\
          \E fn \in RepeatStatFns, n \in 1..MaxPermutations, seed \in Seeds :
            \E g \in Generators(seed) : StartRun(fn, n, TRUE, seed, g.seed_seq)
    \/ PermutationStep
    \/ Aggregate
    \/ KeepResult

SpecRepeat == Init /\ [][NextRepeat]_vars

\* SpecConn follows one CovConn object through its calls.
NextConn ==
    \/ conn = None /\ \E d \in ConnInputs : NewCovConn(d, TRUE)
    \/ conn = None /\ \E d \in WideConnInputs : NewCovConn(d, FALSE)
    \/ \E m \in CorrMethods : ComputeCovariance(m)
    \/ ReadCovariance

SpecConn == Init /\ [][NextConn]_vars

InitPermute == \E entropy \in Entropy : Start(entropy)

\* SpecPermute follows the label permutations of the library: the runs of a
\* comparator and the calls of permute_labels.
NextPermute ==
    \/ pc = "new" /\ \E d \in TwoLabelDatasets : Construct(d)
    \/ pc = "ready" /\
          \E n \in 1..MaxPermutations, seed \in Seeds :
            \E g \in Generators(seed) :
              StartRun(correlation_matrix_difference, n, TRUE, seed, g.seed_seq)
    \/ PermutationStep
    \/ Aggregate
    \/ \E d \in TwoLabelDatasets : PermuteLabels(d)

SpecPermute == InitPermute /\ [][NextPermute]_vars

-----------------------------------------------------------------------------
(* Claims *)

Count(s, x) == Cardinality({i \in DOMAIN s : s[i] = x})

OneLabelPerSubject(frame) ==
    \A i, j \in DOMAIN frame :
        frame[i].subject_id = frame[j].subject_id => frame[i].group = frame[j].group

WithoutGroup(frame) ==
    [i \in DOMAIN frame |->
        [subject_id |-> frame[i].subject_id, region |-> frame[i].region,
         value |-> frame[i].value]]

GroupCount(frame) == Cardinality(Range(Column(frame, "group")))

Finished == pc \in {"done", "failed"}

\* C1: every permuted labeling a run has recorded relabels the same subjects
\* and carries each label as many times as the observed labeling does.
C1_GroupSizesPreserved ==
    \A i \in DOMAIN label_history :
        /\ Column(label_history[i], "subject_id") = Column(SubjectLabels, "subject_id")
        /\ \A g \in Labels :
               Count(Column(label_history[i], "group"), g)
                   = Count(Column(SubjectLabels, "group"), g)

C1_Witness ==
    /\ Len(label_history) = MaxPermutations
    /\ label_history[1] # SubjectLabels
    /\ label_history[1] # label_history[Len(label_history)]

\* C2: when every subject of the data has one label, the data rebuilt from a
\* permuted labeling has the rows of the data, as many as the data, and all
\* rows of a subject carry the label the permuted labeling gives that subject.
C2_RowsFollowTheirSubject ==
    (shuffled_data # <<>> /\ OneLabelPerSubject(data)) =>
        /\ Len(shuffled_data) = Len(data)
        /\ WithoutGroup(shuffled_data) = WithoutGroup(data)
        /\ OneLabelPerSubject(shuffled_data)
        /\ \A i \in DOMAIN shuffled_data :
               \E k \in DOMAIN label_history[Len(label_history)] :
                   LET p == label_history[Len(label_history)][k]
                   IN  /\ p.subject_id = shuffled_data[i].subject_id
                       /\ p.group = shuffled_data[i].group

C2_Witness ==
    /\ shuffled_data # <<>>
    /\ OneLabelPerSubject(data)
    /\ shuffled_data # data
    /\ \E i, j \in DOMAIN data : i # j /\ data[i].subject_id = data[j].subject_id

\* C3: in the dict a run returns, the p-value at every position of the observed
\* statistic is the number of permutations whose null statistic at that position
\* is at least as large in absolute value as the observed entry, out of the
\* permutation count.
C3_PValueCountsNullAtPosition ==
    pc = "done" =>
        \A pos \in Positions(Shape(result.observed)) :
            /\ pos \in DOMAIN result.p_values.values.at
            /\ result.p_values.values.at[pos] =
                   [num |-> Cardinality({i \in 1..n_permutations :
                               /\ pos \in DOMAIN null_diffs[i].at
                               /\ Abs(null_diffs[i].at[pos])
                                      >= Abs(result.observed.values.at[pos])}),
                    den |-> n_permutations]

\* C4: the p-values of a returned dict have the shape and the row and column
\* labels of the observed statistic.
C4_PValuesShapedAsObserved ==
    pc = "done" =>
        /\ result.p_values.values.shape = result.observed.values.shape
        /\ DOMAIN result.p_values.values.at = DOMAIN result.observed.values.at
        /\ result.p_values.index = result.observed.index
        /\ result.p_values.columns = result.observed.columns

C4_Witness ==
    /\ pc = "done"
    /\ result.observed.values.shape = <<1, 1>>
    /\ result.p_values.values.shape = <<1, 1>>
    /\ NumRegions > 1

\* C5: a seeded run returns the dict an earlier run of the comparator returned
\* for the same arguments, whatever runs came in between.
C5_SameSeedSameResult ==
    ( /\ pc = "done"
      /\ earlier # None
      /\ earlier.stat_func = stat_func
      /\ earlier.n_permutations = n_permutations
      /\ earlier.return_distribution = return_distribution
      /\ earlier.random_state = random_state ) => result = earlier.result

C5_Witness ==
    /\ pc = "done"
    /\ earlier # None
    /\ earlier.later_runs = 2
    /\ earlier.stat_func = stat_func
    /\ earlier.n_permutations = n_permutations
    /\ earlier.random_state = random_state
    /\ n_permutations = MaxPermutations
    /\ result = earlier.result

\* C6: a constructor call on data whose group column does not hold exactly two
\* distinct values ends with the two-group error, and nothing is computed.
C6_GroupCountRejected ==
    (dataset # <<>> /\ GroupCount(dataset) # 2) =>
        /\ pc = "rejected"
        /\ error = TwoGroupError
        /\ observed = None
        /\ stat_calls = <<>>
        /\ label_history = <<>>
        /\ result = None

C6_Witness == pc = "rejected" /\ GroupCount(dataset) = 3 /\ error = TwoGroupError

InvalidParameterError == [kind |-> "ValueError", message |-> "n_permutations must be positive"]

\* C7: a run with a permutation count of 0 or less ends with an error of a
\* parameter check, before the statistic function is called, and returns nothing.
C7_NonPositiveCountRejected ==
    (Finished /\ n_permutations <= 0) =>
        /\ pc = "failed"
        /\ error = InvalidParameterError
        /\ stat_calls = <<>>
        /\ result = None

ShapeErrors == {FrameShapeError, BroadcastError,
                [kind |-> "ValueError", message |-> "all input arrays must have the same shape"]}

\* C8: a run in which some null statistic has another shape than the observed
\* statistic ends with a shape error and returns nothing.
C8_ShapeMismatchRejected ==
    (Finished /\ \E i \in DOMAIN null_diffs : null_diffs[i].shape # observed.values.shape) =>
        /\ pc = "failed"
        /\ error \in ShapeErrors
        /\ result = None

\* The generator of the run before its i-th draw.
RECURSIVE GeneratorBefore(_)
GeneratorBefore(i) ==
    IF i = 1 THEN default_rng(random_state, rng.seed_seq) ELSE Advance(GeneratorBefore(i - 1))

\* C9: a returned dict holds as many permuted labelings as permutations asked
\* for, and as many null statistics when the distribution is asked for; the
\* i-th labeling is the i-th draw of the run's generator and the i-th null
\* statistic is the statistic of the data rebuilt from the i-th labeling.
C9_ResultsInPermutationOrder ==
    pc = "done" =>
        /\ Len(result.permutation_labels) = n_permutations
        /\ Len(null_diffs) = n_permutations
        /\ return_distribution =>
               /\ result.null_distributions.shape[1] = n_permutations
               /\ result.null_distributions.items = null_diffs
        /\ ~return_distribution => result.null_distributions = None
        /\ \A i \in 1..n_permutations :
               /\ result.permutation_labels[i]
                      = _permutation_subject_labels(GeneratorBefore(i))
               /\ null_diffs[i] = _compute_permutation_diff(
                      stat_func, _get_shuffled_data(result.permutation_labels[i]))

C9_Witness ==
    /\ pc = "done"
    /\ return_distribution
    /\ n_permutations = MaxPermutations
    /\ result.null_distributions.items[1] # result.null_distributions.items[n_permutations]
    /\ result.permutation_labels[1] # result.permutation_labels[n_permutations]

\* The covariance matrix of a group under the correlation method of the call.
GroupCovariance(frame) ==
    compute_population_covariance(_to_wide_format(frame),
                                  IF method = None THEN "pearson" ELSE method)

\* The two groups the k-th call of the statistic function is about.
GroupsOfCall(k) ==
    IF k = 1 THEN <<group1_data, group2_data>>
    ELSE PermutationGroups(_get_shuffled_data(label_history[k - 1]))

\* C10: every call of the statistic function gets the covariance matrices of
\* the two current groups, computed with the correlation method of the call.
C10_StatisticOfCovariances ==
    \A k \in DOMAIN stat_calls :
        k <= Len(label_history) + 1 =>
            stat_calls[k] = <<GroupCovariance(GroupsOfCall(k)[1]),
                              GroupCovariance(GroupsOfCall(k)[2])>>

InsufficientDataError == [kind |-> "ValueError", message |-> "fewer than 2 subjects"]

\* C11: a compute_covariance call with a known method on data of fewer than two
\* subjects raises the insufficient-data error and leaves no matrix behind.
C11_TooFewSubjectsRejected ==
    ( /\ last_call # None
      /\ last_call.op = "compute_covariance"
      /\ CorrError(last_call.method) = None
      /\ Len(conn._wide_data.index) < 2 ) =>
        /\ last_call.raised = InsufficientDataError
        /\ last_call.returned = None
        /\ conn._covariance = None

\* C12: no label permutation reads or advances the process-wide generator: it
\* stays in the state its seeding left it in, whatever permutations were drawn.
C12_GlobalGeneratorUntouched ==
    np_random = global_random_state(np_random.seed_seq)

\* What a read of the covariance property has to give in the current state.
CovarianceReadAnswers ==
    (last_call # None /\ last_call.op = "covariance") =>
        IF successes = 0
        THEN last_call.raised = NotComputedError /\ last_call.returned = None
        ELSE last_call.raised = None /\ last_call.returned = last_computed

\* A read of the covariance property leaves the stored matrix and the wide data
\* as they were.
CovarianceReadKeepsState ==
    (last_call' # None /\ last_call'.op = "covariance") => UNCHANGED conn

\* C13: reading covariance before any successful compute_covariance raises;
\* after one it returns the matrix of the most recent successful
\* compute_covariance; and a read changes neither that matrix nor the wide data.
C13_CovarianceIsLastComputed ==
    [](CovarianceReadAnswers) /\ [][CovarianceReadKeepsState]_vars

C13_Witness ==
    /\ last_call # None
    /\ last_call.op = "covariance"
    /\ successes = 2
    /\ last_call.returned = last_computed
    /\ Len(conn._wide_data.index) = NumSubjects

====
